---- MODULE Spec2Model ----
(***************************************************************************)
(* go-bank: the JSON API server, its JWT issuance and verification, and    *)
(* the withJwtAuth middleware that guards /account/{id}.                   *)
(*                                                                         *)
(* The repository holds two revisions of the API server: the one with the  *)
(* JWT middleware (createJwt, validateJwt, withJwtAuth; specification      *)
(* Spec) and src/api.go, whose router registers /account/{id} without any  *)
(* middleware (specification SpecApi).  The handlers are the same in both. *)
(*                                                                         *)
(* Storage, Account, NewAccount, AccountRequest and TransferRequest are    *)
(* declared outside the source files at hand; they are modelled from the   *)
(* data model of the specification (a store keyed by a serial identifier). *)
(* The store is modelled as available: every call reaches the database.    *)
(***************************************************************************)
EXTENDS Integers, Sequences, FiniteSets, Bags, TLC

\* ------------------------------------------------------------------- state

VARIABLES
    store,      \* the accounts table: identifier -> Account
    nextId,     \* the next serial identifier the store assigns
    clock,      \* time.Now()
    inflight,   \* bag of /account/{id} requests whose handler has store calls to make
    created,    \* history: the account number each identifier was created with
    last        \* history: the request step just taken and what it wrote

vars == <<store, nextId, clock, inflight, created, last>>

\* ------------------------------------------------------------------ bounds

\* accounts the store ever creates (the serial identifier stops there)
MaxAccounts == 2
\* the goroutines on which net/http serves /account/{id} requests at one time
Goroutines == {"g1", "g2"}

\* the times at which requests arrive: before and after the issued tokens' expiry
Clocks == {14500, 15500}
FirstClock == CHOOSE t \in Clocks : \A u \in Clocks : t <= u

\* -------------------------------------------------------- program constants

\* "expiresAt": 15000 in createJwt
ExpiresAt == 15000
StatusOK == 200
StatusBadRequest == 400
StatusForbidden == 403

\* os.Getenv("JWT_SECRET"), the same value in createJwt and validateJwt
JwtSecret == "JWT_SECRET"

\* ------------------------------------------------------------ input domains

\* account numbers NewAccount may generate (two accounts may get the same)
Numbers == { 1000 + i : i \in 1 .. MaxAccounts }

\* a request body: ok is whether json Decode succeeds
BadBody == [ok |-> FALSE, FirstName |-> "", LastName |-> ""]
AnnLee == [ok |-> TRUE, FirstName |-> "Ann", LastName |-> "Lee"]
BobRay == [ok |-> TRUE, FirstName |-> "Bob", LastName |-> "Ray"]
\* bodies of POST /account, of PUT /account/{id} and of /transfer
CreateBodies == {BadBody, AnnLee}
UpdateBodies == {BadBody, BobRay}
TransferBodies == {BadBody, AnnLee}

\* the {id} segment of the path: decimal identifiers and one that is no number
NotANumber == "abc"
IdRange == 1 .. (MaxAccounts + 1)
IdStrs == { ToString(i) : i \in IdRange } \cup { NotANumber }

ByIdMethods == {"GET", "PUT", "DELETE", "PATCH"}
AccountMethods == {"GET", "POST", "DELETE", "PATCH"}

\* ------------------------------------------------------------------ values

\* a Go interface value or a JSON value: <<type, number>>
Nil == <<"nil", 0>>
GoInt(n) == <<"int", n>>
GoInt64(n) == <<"int64", n>>
GoFloat64(n) == <<"float64", n>>
GoString == <<"string", 0>>

JsonAbsent == <<"absent", 0>>
JsonNumber(n) == <<"number", n>>
JsonString == <<"jsonstring", 0>>

\* encoding/json Marshal of a claim value: every Go number becomes a JSON number
JsonEncode(v) ==
    IF v[1] \in {"int", "int64", "float64"} THEN JsonNumber(v[2])
    ELSE IF v[1] = "string" THEN JsonString
    ELSE JsonAbsent

\* encoding/json Unmarshal into map[string]interface{}: a JSON number becomes a
\* float64 (every integer of the model is exactly representable), a missing key
\* reads as nil
JsonDecode(j) ==
    IF j[1] = "number" THEN GoFloat64(j[2])
    ELSE IF j[1] = "jsonstring" THEN GoString
    ELSE Nil

\* ------------------------------------------------------------------ tokens

HmacAlgs == {"HS256", "HS384", "HS512"}
\* algorithms the jwt library has registered, and one it has not
RegisteredAlgs == HmacAlgs \cup {"RS256", "none"}

\* the signature over header and claims made with `key`
Sign(alg, key, claims) == [key |-> key, alg |-> alg, claims |-> claims]

\* a token string of three segments: header, claims, signature
Token(alg, claims, sig) == [segments |-> 3, alg |-> alg, claims |-> claims, sig |-> sig]

NoClaims == [accountNumber |-> JsonAbsent, exp |-> JsonAbsent, expiresAt |-> JsonAbsent]
\* the header is absent: Header.Get returns ""
NoToken == [segments |-> 0, alg |-> "", claims |-> NoClaims, sig |-> Sign("", "", NoClaims)]
\* a string that is no three-segment token
Garbage == [segments |-> 1, alg |-> "", claims |-> NoClaims, sig |-> Sign("", "", NoClaims)]

\* jwt.NewWithClaims(HS256, {"expiresAt": 15000, "accountNumber": account.Number})
\* followed by SignedString(secret)
createJwtOtherSecret(account) ==
    LET claims == [accountNumber |-> JsonEncode(GoInt64(account.Number)),
                   exp |-> JsonAbsent,
                   expiresAt |-> JsonEncode(GoInt(ExpiresAt))]
    IN Token("HS256", claims, Sign("HS256", "", claims))

createJwt(account) ==
    LET claims == [accountNumber |-> JsonEncode(GoInt64(account.Number)),
                   exp |-> JsonAbsent,
                   expiresAt |-> JsonEncode(GoInt(ExpiresAt))]
    IN Token("HS256", claims, Sign("HS256", JwtSecret, claims))

\* SigningMethodHMAC.Verify: recompute the signature with the key and compare
HmacVerify(alg, claims, sig, key) == sig = Sign(alg, key, claims)

\* the key function validateJwt hands to jwt.Parse: the secret for the HMAC
\* family, an error and no key for every other method
KeyFuncAnyAlg(alg) == [err |-> FALSE, key |-> JwtSecret]

KeyFunc(alg) ==
    IF alg \in HmacAlgs
    THEN [err |-> FALSE, key |-> JwtSecret]
    ELSE [err |-> TRUE, key |-> ""]

\* MapClaims.Valid: only the registered claim "exp" (with "iat" and "nbf", which
\* no token of the model carries) is looked at; "expiresAt" is no registered claim
ClaimsValid(claims, now) ==
    LET exp == JsonDecode(claims.exp)
    IN \/ exp = Nil
       \/ exp[1] = "float64" /\ now < exp[2]

\* the method's Verify with the key the key function returned
MethodVerify(alg, claims, sig, key) ==
    IF alg \in HmacAlgs THEN HmacVerify(alg, claims, sig, key) ELSE FALSE

\* validateJwt: jwt.Parse(tokenString, keyFunc) at time `now`:
\* [err, valid, claims (the decoded MapClaims), keyErr, key]
validateJwt(tokenString, now) ==
    LET decoded == [accountNumber |-> JsonDecode(tokenString.claims.accountNumber),
                    exp |-> JsonDecode(tokenString.claims.exp),
                    expiresAt |-> JsonDecode(tokenString.claims.expiresAt)]
        kf == KeyFunc(tokenString.alg)
        bad == [err |-> TRUE, valid |-> FALSE, claims |-> decoded,
                keyCalled |-> FALSE, key |-> ""]
    IN IF tokenString.segments # 3 THEN bad
       ELSE IF tokenString.alg \notin RegisteredAlgs THEN bad
       ELSE IF kf.err THEN [bad EXCEPT !.keyCalled = TRUE]
       ELSE LET ok == /\ ClaimsValid(tokenString.claims, now)
                      /\ MethodVerify(tokenString.alg, tokenString.claims,
                                      tokenString.sig, kf.key)
            IN [err |-> ~ok, valid |-> ok, claims |-> decoded,
                keyCalled |-> TRUE, key |-> kf.key]

\* ------------------------------------------------------------ token inputs

IssuedClaims(n) ==
    [accountNumber |-> JsonNumber(n), exp |-> JsonAbsent, expiresAt |-> JsonNumber(ExpiresAt)]
\* the same subject under the registered expiry claim
ExpClaims(n) ==
    [accountNumber |-> JsonNumber(n), exp |-> JsonNumber(ExpiresAt), expiresAt |-> JsonAbsent]
\* a claim set without accountNumber, and one whose accountNumber is a string
NoSubjectClaims ==
    [accountNumber |-> JsonAbsent, exp |-> JsonAbsent, expiresAt |-> JsonNumber(ExpiresAt)]
StringSubjectClaims ==
    [accountNumber |-> JsonString, exp |-> JsonAbsent, expiresAt |-> JsonNumber(ExpiresAt)]

AttackerKey == "attacker"
FirstNumber == CHOOSE n \in Numbers : \A m \in Numbers : n <= m

\* the values of the x-jwt-token header: absent, malformed, the tokens createJwt
\* issues, the first number's claims under other algorithms and keys, and other
\* claim sets signed with the secret
Forged(alg, key) ==
    Token(alg, IssuedClaims(FirstNumber), Sign(alg, key, IssuedClaims(FirstNumber)))
Signed(claims) == Token("HS256", claims, Sign("HS256", JwtSecret, claims))

IssuedTokens == { createJwt([Number |-> n]) : n \in Numbers }

Tokens ==
    {NoToken, Garbage}
    \cup IssuedTokens
    \cup { Forged("HS256", AttackerKey), Forged("HS384", JwtSecret),
           Forged("RS256", AttackerKey), Forged("none", AttackerKey),
           Forged("XX", AttackerKey) }
    \cup { Signed(ExpClaims(FirstNumber)), Signed(NoSubjectClaims),
           Signed(StringSubjectClaims) }

\* requests to /account/{id}: <<method, {id}, x-jwt-token, body>>
Request(method, idStr, tokenString, body) == <<method, idStr, tokenString, body>>

\* every token against every {id}, and every method with an issued token
AuthRequests ==
    { Request("GET", i, t, BadBody) : i \in IdStrs, t \in Tokens }
    \cup { Request(m, i, t, BadBody) : m \in ByIdMethods \ {"PUT"}, i \in IdStrs,
                                       t \in IssuedTokens }
    \cup { Request("PUT", i, t, b) : i \in IdStrs, t \in IssuedTokens, b \in UpdateBodies }

\* the methods with a handler and a decodable body, against the identifiers the
\* store assigns, with an issued token or none
ConcurrentRequests ==
    { Request(m, ToString(i), t, IF m = "PUT" THEN BobRay ELSE BadBody) :
          m \in {"GET", "PUT", "DELETE"}, i \in 1 .. MaxAccounts, t \in IssuedTokens }
    \cup { Request("GET", ToString(i), NoToken, BadBody) : i \in 1 .. MaxAccounts }

\* ------------------------------------------------------------------- store

NoAccount ==
    [ID |-> 0, FirstName |-> "", LastName |-> "", Number |-> 0, Balance |-> 0, CreatedAt |-> 0]

\* NewAccount(firstName, lastName): a generated number, no balance, created now
NewAccount(firstName, lastName, number, now) ==
    [ID |-> 0, FirstName |-> firstName, LastName |-> lastName, Number |-> number,
     Balance |-> 0, CreatedAt |-> now]

\* Storage.CreateAccount: the store assigns the next serial identifier
CreateAccount(st, id, account) ==
    [i \in DOMAIN st \cup {id} |-> IF i = id THEN [account EXCEPT !.ID = id] ELSE st[i]]

\* Storage.GetAccountById: an error when no account has the identifier
GetAccountById(st, id) ==
    IF id \in DOMAIN st
    THEN [err |-> FALSE, account |-> st[id]]
    ELSE [err |-> TRUE, account |-> NoAccount]

\* Storage.UpdateAccount: rewrites the row with the account's identifier, if any
UpdateAccount(st, account) ==
    [i \in DOMAIN st |-> IF i = account.ID THEN account ELSE st[i]]

\* Storage.DeleteAccount: removes the row with the identifier, if any
DeleteAccount(st, id) == [i \in DOMAIN st \ {id} |-> st[i]]

\* ------------------------------------------------------------- middleware

\* strconv.Atoi of the {id} path variable ("" when the route has none)
Atoi ==
    [s \in IdStrs \cup {""} |->
        IF \E i \in IdRange : ToString(i) = s
        THEN [err |-> FALSE, id |-> CHOOSE i \in IdRange : ToString(i) = s]
        ELSE [err |-> TRUE, id |-> -1]]

getIdFromQueryParams(idStr) == Atoi[idStr]

PermissionDenied == "Permission denied"
InvalidToken == "Invalid token"

\* writeJSON(w, StatusForbidden, APIError{Error: msg}); return
Deny(msg, st) ==
    [outcome |-> "denied", status |-> StatusForbidden, error |-> msg, writes |-> 1,
     handlerCalls |-> 0, id |-> 0, store |-> st]

Allow(id, st) ==
    [outcome |-> "allowed", status |-> 0, error |-> "", writes |-> 0,
     handlerCalls |-> 1, id |-> id, store |-> st]

\* claims["accountNumber"].(float64) panics: the goroutine unwinds, nothing is
\* written, the handler is not called
Panic(st) ==
    [outcome |-> "panic", status |-> 0, error |-> "", writes |-> 0,
     handlerCalls |-> 0, id |-> 0, store |-> st]

\* withJwtAuth without the comparison of the account's number with the subject
withJwtAuthNoOwnerCheck(tokenString, idStr, st, now) ==
    LET token == validateJwt(tokenString, now)
        userId == getIdFromQueryParams(idStr)
        got == GetAccountById(st, userId.id)
    IN IF token.err \/ ~token.valid THEN Deny(PermissionDenied, st)
       ELSE IF userId.err THEN Deny(InvalidToken, st)
       ELSE IF got.err THEN Deny(InvalidToken, st)
       ELSE Allow(userId.id, st)

\* withJwtAuth deciding on the account it remembers from creation, not on the
\* account the store holds now
withJwtAuthRemembered(tokenString, idStr, st, now) ==
    LET token == validateJwt(tokenString, now)
        userId == getIdFromQueryParams(idStr)
        subject == token.claims.accountNumber
    IN IF token.err \/ ~token.valid THEN Deny(PermissionDenied, st)
       ELSE IF userId.err THEN Deny(InvalidToken, st)
       ELSE IF userId.id \notin DOMAIN created THEN Deny(InvalidToken, st)
       ELSE IF subject[1] # "float64" THEN Panic(st)
       ELSE IF created[userId.id] # subject[2] THEN Deny(InvalidToken, st)
       ELSE Allow(userId.id, st)

\* withJwtAuth removing the account a foreign token was presented against
withJwtAuthRemoving(tokenString, idStr, st, now) ==
    LET token == validateJwt(tokenString, now)
        userId == getIdFromQueryParams(idStr)
        got == GetAccountById(st, userId.id)
        subject == token.claims.accountNumber
    IN IF token.err \/ ~token.valid THEN Deny(PermissionDenied, st)
       ELSE IF userId.err THEN Deny(InvalidToken, st)
       ELSE IF got.err THEN Deny(InvalidToken, st)
       ELSE IF subject[1] # "float64" THEN Panic(st)
       ELSE IF got.account.Number # subject[2]
       THEN Deny(InvalidToken, DeleteAccount(st, userId.id))
       ELSE Allow(userId.id, st)

\* the closure withJwtAuth returns, up to the call of the wrapped handler:
\* the outcome, the response written so far, and the store after its calls
withJwtAuth(tokenString, idStr, st, now) ==
    LET token == validateJwt(tokenString, now)
        userId == getIdFromQueryParams(idStr)
        got == GetAccountById(st, userId.id)
        subject == token.claims.accountNumber
    IN IF token.err \/ ~token.valid THEN Deny(PermissionDenied, st)
       ELSE IF userId.err THEN Deny(InvalidToken, st)
       ELSE IF got.err THEN Deny(InvalidToken, st)
       ELSE IF subject[1] # "float64" THEN Panic(st)
       ELSE IF got.account.Number # subject[2] THEN Deny(InvalidToken, st)
       ELSE Allow(userId.id, st)

\* --------------------------------------------------------------- requests

\* an /account/{id} request on its way through handleAccountById.
\* authFor: the identifier the middleware allowed it for (0: no middleware ran)
InFlight(pc, method, id, body, account, authFor) ==
    [pc |-> pc, method |-> method, id |-> id, body |-> body, account |-> account,
     authFor |-> authFor]

NoStep ==
    [op |-> "init", method |-> "", idStr |-> "", token |-> NoToken, outcome |-> "none",
     status |-> 0, error |-> "", writes |-> 0, handlerCalls |-> 0,
     storeOp |-> "none", storeId |-> 0, authFor |-> 0]

\* what a handler's return leaves on the wire: writeJSON(200, v) on success,
\* makeHttpHandleFunc's writeJSON(400, APIError{err}) on an error
Respond(step, err) ==
    [step EXCEPT !.status = IF err = "" THEN StatusOK ELSE StatusBadRequest,
                 !.error = err, !.writes = 1]

Init ==
    /\ store = << >>
    /\ nextId = 1
    /\ clock = FirstClock
    /\ inflight = EmptyBag
    /\ created = << >>
    /\ last = NoStep

\* time passes
Tick ==
    /\ \E t \in Clocks : t > clock /\ clock' = t
    /\ last' = [NoStep EXCEPT !.op = "tick"]
    /\ UNCHANGED <<store, nextId, inflight, created>>

\* ------------------------------------------------------ /account, /transfer

\* the number NewAccount generates: one no account was created with (when every
\* number of the domain is taken, no account is created)
NewNumbers ==
    LET free == Numbers \ { created[i] : i \in DOMAIN created }
    IN IF free = {} THEN {0} ELSE { CHOOSE n \in free : \A m \in free : n <= m }

\* POST /account: handleCreateAccount
handleCreateAccount(body, number) ==
    LET account == NewAccount(body.FirstName, body.LastName, number, clock)
        step == [NoStep EXCEPT !.op = "create", !.method = "POST"]
    IN IF ~body.ok
       THEN /\ last' = Respond(step, "decode")
            /\ UNCHANGED <<store, nextId, created>>
       ELSE /\ nextId <= MaxAccounts
            /\ store' = CreateAccount(store, nextId, account)
            /\ nextId' = nextId + 1
            /\ created' = Append(created, number)
            /\ last' = Respond([step EXCEPT !.token = createJwt(account),
                                            !.storeOp = "CreateAccount",
                                            !.storeId = nextId], "")

\* GET /account: handleGetAccount
handleGetAccount ==
    /\ last' = Respond([NoStep EXCEPT !.op = "list", !.method = "GET",
                                      !.storeOp = "GetAccounts"], "")
    /\ UNCHANGED <<store, nextId, created>>

\* handleDeleteAccount reached from /account: the route has no {id}
handleDeleteAccountNoId ==
    LET id == getIdFromQueryParams("")
        step == [NoStep EXCEPT !.op = "delete", !.method = "DELETE"]
    IN /\ IF id.err
          THEN /\ last' = Respond(step, "invalid id given")
               /\ store' = store
          ELSE /\ store' = DeleteAccount(store, id.id)
               /\ last' = Respond([step EXCEPT !.storeOp = "DeleteAccount",
                                               !.storeId = id.id], "")
       /\ UNCHANGED <<nextId, created>>

\* handleAccount: the dispatch of /account on the method
handleAccount(method, body, number) ==
    /\ IF method = "GET" THEN handleGetAccount
       ELSE IF method = "POST" THEN handleCreateAccount(body, number)
       ELSE IF method = "DELETE" THEN handleDeleteAccountNoId
       ELSE /\ last' = Respond([NoStep EXCEPT !.op = "account", !.method = method],
                               "method not allowed")
            /\ UNCHANGED <<store, nextId, created>>
    /\ UNCHANGED <<clock, inflight>>

AccountReq ==
    \E method \in AccountMethods, body \in CreateBodies, number \in NewNumbers :
        /\ method # "POST" => body = BadBody
        /\ handleAccount(method, body, number)

\* /transfer: handleTransfer echoes the decoded request
handleTransfer(body) ==
    /\ last' = Respond([NoStep EXCEPT !.op = "transfer"],
                       IF body.ok THEN "" ELSE "decode")
    /\ UNCHANGED <<store, nextId, clock, inflight, created>>

TransferReq == \E body \in TransferBodies : handleTransfer(body)

\* ------------------------------------------------------------ /account/{id}

One(e) == SetToBag({e})

\* handleAccountById: the dispatch of /account/{id} on the method.  A handler
\* with store calls to make goes in flight; the others answer at once.
handleAccountById(step, method, idStr, body, authFor) ==
    IF method \in {"GET", "PUT", "DELETE"}
    THEN IF getIdFromQueryParams(idStr).err
         THEN /\ last' = Respond(step, "invalid id given")
              /\ inflight' = inflight
         ELSE /\ BagCardinality(inflight) < Cardinality(Goroutines)
              /\ inflight' = inflight (+) One(InFlight("handler", method, idStr, body,
                                                       NoAccount, authFor))
              /\ last' = step
    ELSE /\ last' = Respond(step, "method not allowed")
         /\ inflight' = inflight

\* the route "/account/{id}" of Run: withJwtAuth(makeHttpHandleFunc(handleAccountById))
RunAccountById(method, idStr, tokenString, body) ==
    LET r == withJwtAuth(tokenString, idStr, store, clock)
        step == [NoStep EXCEPT !.op = "auth", !.method = method, !.idStr = idStr,
                               !.token = tokenString, !.outcome = r.outcome,
                               !.status = r.status, !.error = r.error,
                               !.writes = r.writes, !.handlerCalls = r.handlerCalls,
                               !.authFor = r.id]
    IN /\ store' = r.store
       /\ IF r.handlerCalls = 1
          THEN handleAccountById(step, method, idStr, body, r.id)
          ELSE /\ last' = step
               /\ inflight' = inflight
       /\ UNCHANGED <<nextId, clock, created>>

AccountByIdReq(requests) ==
    \E r \in requests : RunAccountById(r[1], r[2], r[3], r[4])

\* account.FirstName = accountRequest.FirstName; account.LastName = ...LastName
SetNamesAndNumber(account, accountRequest) ==
    [account EXCEPT !.FirstName = accountRequest.FirstName,
                    !.LastName = accountRequest.LastName,
                    !.Number = 0]

SetNames(account, accountRequest) ==
    [account EXCEPT !.FirstName = accountRequest.FirstName,
                    !.LastName = accountRequest.LastName]

HandlerStep(e, op) ==
    [NoStep EXCEPT !.op = op, !.method = e.method, !.idStr = e.id, !.authFor = e.authFor]

\* handleGetAccountById
handleGetAccountById(e) ==
    LET id == getIdFromQueryParams(e.id).id
        got == GetAccountById(store, id)
        step == [HandlerStep(e, "getById") EXCEPT !.storeOp = "GetAccountById",
                                                   !.storeId = id]
    IN /\ e.pc = "handler" /\ e.method = "GET"
       /\ last' = Respond(step, IF got.err THEN "not found" ELSE "")
       /\ inflight' = inflight (-) One(e)
       /\ UNCHANGED <<store, nextId, clock, created>>

\* handleDeleteAccount
handleDeleteAccount(e) ==
    LET id == getIdFromQueryParams(e.id).id
        step == [HandlerStep(e, "delete") EXCEPT !.storeOp = "DeleteAccount",
                                                  !.storeId = id]
    IN /\ e.pc = "handler" /\ e.method = "DELETE"
       /\ store' = DeleteAccount(store, id)
       /\ last' = Respond(step, "")
       /\ inflight' = inflight (-) One(e)
       /\ UNCHANGED <<nextId, clock, created>>

\* handleUpdateAccount up to its store.UpdateAccount call: the lookup, the
\* decoding of the body and the assignment of the two names
handleUpdateAccountGet(e) ==
    LET id == getIdFromQueryParams(e.id).id
        got == GetAccountById(store, id)
        step == [HandlerStep(e, "update") EXCEPT !.storeOp = "GetAccountById",
                                                  !.storeId = id]
    IN /\ e.pc = "handler" /\ e.method = "PUT"
       /\ IF got.err
          THEN /\ last' = Respond(step, "not found")
               /\ inflight' = inflight (-) One(e)
          ELSE IF ~e.body.ok
          THEN /\ last' = Respond(step, "decode")
               /\ inflight' = inflight (-) One(e)
          ELSE /\ last' = step
               /\ inflight' = (inflight (-) One(e))
                                (+) One([e EXCEPT !.pc = "updating",
                                                  !.account = SetNames(got.account, e.body)])
       /\ UNCHANGED <<store, nextId, clock, created>>

\* handleUpdateAccount from store.UpdateAccount on
handleUpdateAccountPut(e) ==
    LET step == [HandlerStep(e, "update") EXCEPT !.storeOp = "UpdateAccount",
                                                  !.storeId = e.account.ID]
    IN /\ e.pc = "updating"
       /\ store' = UpdateAccount(store, e.account)
       /\ last' = Respond(step, "")
       /\ inflight' = inflight (-) One(e)
       /\ UNCHANGED <<nextId, clock, created>>

Handle ==
    \E e \in BagToSet(inflight) :
        \/ handleGetAccountById(e)
        \/ handleDeleteAccount(e)
        \/ handleUpdateAccountGet(e)
        \/ handleUpdateAccountPut(e)

\* ---------------------------------------------------------- specifications

\* the server whose Run wraps /account/{id} in withJwtAuth, its requests served
\* concurrently, at one time of day
Next ==
    \/ AccountReq
    \/ TransferReq
    \/ AccountByIdReq(ConcurrentRequests)
    \/ Handle

Spec == Init /\ [][Next]_vars

\* the same server, each request served to its end before the next arrives,
\* under every token of the input domain
Idle == inflight = EmptyBag

NextAuth ==
    \/ Idle /\ Tick
    \/ Idle /\ AccountReq
    \/ Idle /\ TransferReq
    \/ Idle /\ AccountByIdReq(AuthRequests)
    \/ Handle

SpecAuth == Init /\ [][NextAuth]_vars

\* the route "/account/{id}" of src/api.go's Run: makeHttpHandleFunc(handleAccountById)
ApiRunAccountById(method, idStr, body) ==
    /\ handleAccountById([NoStep EXCEPT !.op = "route", !.method = method,
                                        !.idStr = idStr], method, idStr, body, 0)
    /\ UNCHANGED <<store, nextId, clock, created>>

ApiAccountByIdReq ==
    \E method \in ByIdMethods, idStr \in IdStrs, body \in UpdateBodies :
        /\ method # "PUT" => body = BadBody
        /\ ApiRunAccountById(method, idStr, body)

\* the server of src/api.go
NextApi ==
    \/ AccountReq
    \/ TransferReq
    \/ ApiAccountByIdReq
    \/ Handle

SpecApi == Init /\ [][NextApi]_vars

\* ------------------------------------------------------------------ claims

LastAuth == last.op = "auth"
\* the identifier the {id} of the last request parses to (-1: none)
LastId == Atoi[last.idStr].id
Deleted == DOMAIN created \ DOMAIN store
\* the wrapped handler was called with the request the middleware received
HandlerGotRequest ==
    /\ last.handlerCalls = 1
    /\ last.method \in {"GET", "PUT", "DELETE"} =>
           \E e \in BagToSet(inflight) :
               e.pc = "handler" /\ e.method = last.method /\ e.id = last.idStr
    /\ last.method \notin {"GET", "PUT", "DELETE"} => last.error = "method not allowed"
LastDenied == last.outcome = "denied" /\ last.handlerCalls = 0

\* C1: a token createJwt issued for a stored account A is allowed on
\* /account/{A's id} (the wrapped handler gets the request) and is denied with
\* 403, the handler not called, on /account/{B's id} for every stored account B
\* with another number.
C1_Ownership ==
    \A a \in DOMAIN store :
        (LastAuth /\ last.token = createJwt(store[a])) =>
            /\ LastId = a => last.outcome = "allowed" /\ HandlerGotRequest
            /\ \A b \in DOMAIN store :
                   (LastId = b /\ store[b].Number # store[a].Number) =>
                       LastDenied /\ last.status = StatusForbidden

C1_Witness ==
    /\ LastAuth /\ LastDenied
    /\ \E a, b \in DOMAIN store :
           /\ store[a].Number # store[b].Number
           /\ last.token = createJwt(store[a])
           /\ LastId = b

\* C2: every denial of withJwtAuth is status 403 with the body
\* {"Error": "Permission denied"}, whichever step failed.
C2_UniformDenial ==
    (LastAuth /\ last.outcome = "denied") =>
        last.status = StatusForbidden /\ last.error = PermissionDenied

\* the expiry a token states: the registered "exp" claim, else "expiresAt"
Expiry(tokenString) ==
    IF tokenString.claims.exp # JsonAbsent THEN tokenString.claims.exp
    ELSE tokenString.claims.expiresAt

\* C3: a request whose token states an expiry in the past is denied and the
\* wrapped handler is not called.
C3_ExpiredRejected ==
    (LastAuth /\ Expiry(last.token)[1] = "number" /\ Expiry(last.token)[2] < clock) =>
        LastDenied

\* C4: handleGetAccountById, handleUpdateAccount and handleDeleteAccount make
\* their store call on an account only for a request the middleware allowed for
\* that account; the store calls made without an authorization check are
\* CreateAccount and GetAccounts.
C4_Gated ==
    /\ last.storeOp \in {"GetAccountById", "UpdateAccount", "DeleteAccount"} =>
           last.authFor = last.storeId /\ last.authFor # 0
    /\ (last.storeOp # "none" /\ last.authFor = 0) =>
           last.storeOp \in {"CreateAccount", "GetAccounts"}

C4_Witness ==
    /\ last.storeOp \in {"GetAccountById", "UpdateAccount", "DeleteAccount"}
    /\ last.status = StatusOK

\* C5: a three-segment token whose header names an algorithm outside the HMAC
\* family is denied, the wrapped handler is not called, and the key function
\* returns an error and not the secret.
C5_AlgorithmPinning ==
    (LastAuth /\ last.token.segments = 3 /\ last.token.alg \notin HmacAlgs) =>
        /\ LastDenied
        /\ validateJwt(last.token, clock).err
        /\ validateJwt(last.token, clock).key # JwtSecret

C5_Witness ==
    /\ LastAuth /\ LastDenied
    /\ last.token.alg \in RegisteredAlgs \ HmacAlgs
    /\ LastId \in DOMAIN store
    /\ last.token.claims.accountNumber = JsonNumber(store[LastId].Number)

\* C6: a request to /account/{id} whose authorization lookup happens after the
\* account with that identifier was deleted is denied and its handler is not
\* called, whatever token it carries and whatever else is in flight.
C6_NoStaleAllow ==
    (LastAuth /\ LastId \in Deleted) => LastDenied

\* the deleted account's own token is refused while a request that was allowed
\* for the account before the delete is still in flight
C6_Witness ==
    /\ LastAuth /\ LastDenied
    /\ LastId \in Deleted
    /\ last.token = createJwt([Number |-> created[LastId]])
    /\ \E e \in BagToSet(inflight) : e.id = last.idStr

\* C7: before its expiry the token handleCreateAccount issues for the account
\* it created verifies, and its accountNumber claim reads as the account's number.
C7_RoundTrip ==
    (last.op = "create" /\ last.storeOp = "CreateAccount" /\ clock < ExpiresAt) =>
        LET v == validateJwt(last.token, clock)
        IN /\ ~v.err /\ v.valid
           /\ v.claims.accountNumber = GoFloat64(store[last.storeId].Number)

C7_Witness ==
    /\ last.op = "create" /\ last.storeOp = "CreateAccount" /\ clock < ExpiresAt
    /\ last.storeId \in DOMAIN store

\* C8: every request through withJwtAuth ends allowed or denied; a denial is a
\* 403 written once without a call of the handler; an allow calls it once.
C8_TerminalStates ==
    LastAuth =>
        /\ last.outcome \in {"allowed", "denied"}
        /\ last.outcome = "denied" =>
               last.status = StatusForbidden /\ last.writes = 1 /\ last.handlerCalls = 0
        /\ last.outcome = "allowed" => last.handlerCalls = 1

\* C9: every stored account has the number it was created with, and the
\* UpdateAccount call of handleUpdateAccount changes at most the two names of
\* the account with the path's identifier.
NumberKept == \A id \in DOMAIN store : store[id].Number = created[id] /\ store[id].ID = id

UpdateFrame ==
    (last'.op = "update" /\ last'.storeOp = "UpdateAccount") =>
        /\ DOMAIN store' = DOMAIN store
        /\ \A id \in DOMAIN store :
               IF id = Atoi[last'.idStr].id
               THEN /\ store'[id].ID = store[id].ID
                    /\ store'[id].Number = store[id].Number
                    /\ store'[id].Balance = store[id].Balance
                    /\ store'[id].CreatedAt = store[id].CreatedAt
               ELSE store'[id] = store[id]

C9_NumberImmutable == [][NumberKept' /\ UpdateFrame]_vars

C9_Witness ==
    /\ last.op = "update" /\ last.storeOp = "UpdateAccount"
    /\ LastId \in DOMAIN store
    /\ store[LastId].FirstName = BobRay.FirstName
    /\ \E other \in DOMAIN store : other # LastId /\ store[other].FirstName = AnnLee.FirstName

\* C10: a step of the middleware leaves the store as it was, and every change
\* of the store by a request to /account/{id} is made by a handler the
\* middleware allowed.
C10_MiddlewareFrame ==
    [][ /\ last'.op = "auth" => store' = store /\ nextId' = nextId
        /\ store' # store =>
               \/ last'.op = "create"
               \/ last'.op \in {"update", "delete"} /\ last'.authFor # 0 ]_vars

C10_Witness ==
    /\ LastAuth /\ last.outcome = "denied"
    /\ LastId \in DOMAIN store

====
